---------------------------- MODULE Spec2Model ----------------------------
(***************************************************************************)
(* PandaConnector (src/armer_panda/PandaConnector.py) and PandaHandlerNode *)
(* (src/armer_panda/PandaHandlerNode.py) as a state machine.               *)
(*                                                                         *)
(* Every thread of control has a stack of code positions (stack[t], top    *)
(* first) and a record of the locals of the functions it is in (loc[t]).   *)
(* One action models one straight-line piece of a method: from a position  *)
(* up to the next call of __call or of another method, or up to a return.  *)
(* One action, Attempt, is one iteration of the retry loop of __call and   *)
(* holds the Desk service's handling of the request.                       *)
(*                                                                         *)
(* The Desk web service of the arm is the environment: it answers 200 or   *)
(* fails at will, hands out control tokens, and other users (or the        *)
(* operator pressing the button on the arm) change the active token at any *)
(* time.                                                                   *)
(***************************************************************************)
EXTENDS Integers, Sequences, FiniteSets, TLC

\* ---------------------------------------------------------------- bounds
MaxTokens == 1        \* control tokens the service hands to this connector
MaxForceTimeout == 2  \* largest tokenForceTimeout the safety endpoint reports
MaxRetries == 1       \* largest retries argument a caller passes to connect/login

\* ------------------------------------------------------- program constants
DefaultRetries == 5   \* __call(..., retries=5)
AttemptTimeout == 10  \* session.request(..., timeout=10)

\* ------------------------------------------------------------------ values
None == 0 - 1         \* Python None / JSON null where the other values are numbers >= 0
OtherId == None + 1   \* id of the token of some other user of the arm
OurIds == 1..MaxTokens
Failed == None - 1     \* in an observation: the query got no answer
TokenOf(id) == id + MaxTokens + 1   \* the opaque token value the service pairs with id

\* versions are release tuples; the service reports one of these
Firmwares == {<<4, 1, 9>>, <<4, 2, 0>>}     \* the arm's firmware when the program starts
Versions == Firmwares \cup {<<3, 0, 0>>, <<4, 2, 1>>, <<4, 3, 1>>, <<4, 10, 0>>}
SpocVersion == <<4, 2, 0>>
NoVersion == <<>>
\* a first line that is no version string (a negative number stands for text)
BadVersion == <<None>>

\* how long one transport attempt may take (anything up to its timeout)
Durations == {0, 1, AttemptTimeout}
\* The clock is exact up to the largest timeout; Late stands for every later time.
Late == MaxForceTimeout + 1
Tick(clock, d) == IF clock + d > Late THEN Late ELSE clock + d

Threads == {"t1", "t2"}
MainThread == "t1"

VARIABLES
  \* PandaConnector fields
  session,            \* TRUE once connect() made a requests.Session (None before)
  connected,
  version,
  control_token_req,
  control_token,
  control_token_id,
  header,             \* session.headers['X-Control-Token'] (None: absent)
  cookie,             \* session.cookies['authorization'] (None: absent)
  \* the Desk service
  sysVersion,         \* the firmware version it reports
  svcActive,          \* id of the active control token, None if nobody has control
  svcNext,            \* next token id it hands to this connector
  \* wall clock, as time.time() - start of the force-acquire poll
  now,
  \* threads
  stack, loc,
  \* PandaHandlerNode
  node,
  \* what the last step did (observation only)
  ev

connVars == <<session, connected, version, control_token_req, control_token,
              control_token_id, header, cookie>>
svcVars  == <<sysVersion, svcActive, svcNext>>
vars     == <<connVars, svcVars, now, stack, loc, node, ev>>


\* ------------------------------------------------------------ small helpers
Top(t)  == IF stack[t] = <<>> THEN "idle" ELSE Head(stack[t])
Idle(t) == stack[t] = <<>>
OnStack(t, lbl) == \E i \in 1..Len(stack[t]) : stack[t][i] = lbl
\* the thread is inside the wait loop of acquire_control_token(force=True)
InPoll(t) == OnStack(t, "acq_poll") \/ OnStack(t, "acq_poll_1")

\* replace the top position by `frames` (a call pushes callee and return point)
Goto(t, frames) == stack' = [stack EXCEPT ![t] = frames \o Tail(@)]
\* pop the top position: the function returns to its caller
Pop(t) == stack' = [stack EXCEPT ![t] = Tail(@)]

NoResp == [cred |-> "", text |-> <<>>, token |-> None, id |-> None,
           activeToken |-> None, tokenForceTimeout |-> None]

\* locals of the functions a thread is in, and what it did in the current operation
L0 == [ep |-> "none", json |-> None, retries |-> 0, attempts |-> 0,
       res |-> FALSE, resp |-> NoResp,       \* __call and its result (res, resp)
       ret |-> FALSE,                         \* value the last method returned
       arg |-> 0, force |-> FALSE,            \* arguments: retries, force
       timeout |-> None,                      \* acquire_control_token: timeout
       tries |-> 0, first200 |-> 0,           \* observation: attempts of the last __call
       icaCount |-> 0,                        \* observation: is_control_token_active calls
       sawOwn |-> FALSE,                      \* observation: a query reported our id
       reqOK |-> FALSE,                       \* observation: the token request got 200
       grant |-> "none",                      \* observation, in the poll: when our token
                                              \*   first became the active one: before
                                              \*   ("early"), "at" or after ("late") the
                                              \*   timeout; "gone": it is not active any more
       clean |-> TRUE,                        \*   no attempt failed since an "early" grant
       lateTries |-> 0,                       \* observation: attempts begun after the timeout
       authOK |-> FALSE]                      \* observation: authority verified in this command

NoEv == [kind |-> "none", name |-> "none", val |-> FALSE, n |-> None]
Ev(k, nm, v, n) == [kind |-> k, name |-> nm, val |-> v, n |-> n]

\* a counter of the observation that stops counting at 2 ("more than once")
Bump(c) == IF c < 2 THEN c + 1 ELSE c

\* ------------------------------------------------------- version comparison
\* packaging.version: release tuples compare segment by segment, missing
\* segments count as 0
Seg(v, i) == IF i <= Len(v) THEN v[i] ELSE 0
MaxSeg(a, b) == IF Len(a) >= Len(b) THEN Len(a) ELSE Len(b)
VersionGE(a, b) ==
  \/ \A i \in 1..MaxSeg(a, b) : Seg(a, i) = Seg(b, i)
  \/ \E i \in 1..MaxSeg(a, b) :
        /\ Seg(a, i) > Seg(b, i)
        /\ \A j \in 1..(i - 1) : Seg(a, j) = Seg(b, j)
\* resp.text.strip('"').split('\\n')[0]: the body is a quoted string of lines,
\* the version is its first line
FirstLine(text) == Head(text)
\* version.parse accepts it as a release
Parses(v) == \A i \in 1..Len(v) : v[i] >= 0


\* ------------------------------------------------------------ Desk service
Spoc(v) == VersionGE(v, SpocVersion)   \* firmware with single point of control
TokenEps  == {"request", "request?force", "control-token:GET", "control-token:DELETE"}
FciEps    == {"fci:POST", "fci:DELETE"}
DeskEps   == {"open-brakes", "close-brakes", "homing"}

\* how many token requests of this connector the service answers in a run:
\* MaxTokens, and one more where two callers ask at the same time
TokenLimit == IF node.phase = "callers" THEN MaxTokens + 1 ELSE MaxTokens

\* may the service answer this request with status 200 ?
Accepts(ep, js) ==
  CASE ep \in {"request", "request?force"} -> svcNext <= TokenLimit
    [] ep \in FciEps  -> ~Spoc(sysVersion) \/ (svcActive # None /\ js = TokenOf(svcActive))
    [] ep \in DeskEps -> ~Spoc(sysVersion) \/ (svcActive # None /\ header = TokenOf(svcActive))
    [] OTHER -> TRUE

\* the bodies it may send with status 200
Answers(ep) ==
  CASE ep = "login" -> {[NoResp EXCEPT !.cred = "credential"]}
    [] ep = "system-version" -> {[NoResp EXCEPT !.text = <<sysVersion, <<>>>>]}
    [] ep = "safety" -> {[NoResp EXCEPT !.tokenForceTimeout = x] : x \in 0..MaxForceTimeout}
    [] ep \in {"request", "request?force"} ->
         {[NoResp EXCEPT !.token = TokenOf(svcNext), !.id = svcNext]}
    [] ep = "control-token:GET" -> {[NoResp EXCEPT !.activeToken = svcActive]}
    [] OTHER -> {NoResp}

\* what a request answered with 200 does to the service
Serve(ep, js) ==
  CASE ep \in {"request", "request?force"} ->
         /\ svcNext' = svcNext + 1
         /\ svcActive' = IF svcActive = None THEN svcNext ELSE svcActive
         /\ UNCHANGED sysVersion
    [] ep = "control-token:DELETE" ->
         /\ svcActive' = IF svcActive # None /\ js = TokenOf(svcActive) THEN None ELSE svcActive
         /\ UNCHANGED <<sysVersion, svcNext>>
    [] OTHER -> UNCHANGED svcVars

\* observation: a change of the active token to `new`, seen from a poll for token `own`
When(clock, timeout) ==
  IF clock < timeout THEN "early" ELSE IF clock = timeout THEN "at" ELSE "late"
NoteChange(l, t, new) ==
  IF ~InPoll(t) THEN l
  ELSE IF new = control_token_id /\ l.grant = "none"
       THEN [l EXCEPT !.grant = When(now, l.timeout), !.clean = TRUE]
  ELSE IF new # control_token_id /\ svcActive = control_token_id
       THEN [l EXCEPT !.grant = "gone", !.clean = TRUE]
  ELSE l

\* another user (or the operator's button press) makes token `id` the active one
EnvActivate(id) ==
  /\ id \in (OtherId..(svcNext - 1)) \ {svcActive}
  /\ svcActive' = id
  /\ loc' = [t \in Threads |-> NoteChange(loc[t], t, id)]
  /\ ev' = NoEv
  /\ UNCHANGED <<connVars, sysVersion, svcNext, now, stack, node>>

\* the active token is released or expires
EnvRelease ==
  /\ svcActive # None
  /\ svcActive' = None
  /\ loc' = [t \in Threads |-> NoteChange(loc[t], t, None)]
  /\ ev' = NoEv
  /\ UNCHANGED <<connVars, sysVersion, svcNext, now, stack, node>>

\* the arm comes back with another firmware
EnvFirmware(v) ==
  /\ v # sysVersion
  /\ sysVersion' = v
  /\ ev' = NoEv
  /\ UNCHANGED <<connVars, svcActive, svcNext, now, stack, loc, node>>

\* ------------------------------------------------------------------ __call
\* the caller's part of a call of __call(endpoint, reqtype, json, retries)
SetCall(l, ep, js, r) ==
  [l EXCEPT !.ep = ep, !.json = js, !.retries = r, !.attempts = 0,
            !.res = FALSE, !.resp = NoResp, !.tries = 0, !.first200 = 0]

\* (mutant) the loop runs one time too few
LoopGuardShort(l) == l.attempts < l.retries

\* while attempts < retries + 1
LoopGuard(l) == l.attempts < l.retries + 1

\* observation: 1 if an attempt begun now is begun in the poll after its timeout
LateTry(t) == IF InPoll(t) /\ now >= loc[t].timeout THEN 1 ELSE 0

\* one iteration of the loop: session.request(...); 200 returns (True, resp),
\* any other status and any exception count one attempt
Attempt(t) ==
  /\ Top(t) = "call"
  /\ LoopGuard(loc[t])
  /\ LET l == loc[t] IN
     IF ~session
     THEN \* self.session is None: the attribute error is swallowed by `except:`
          /\ loc' = [loc EXCEPT ![t].attempts = @ + 1, ![t].tries = @ + 1]
          /\ ev' = Ev("raise", l.ep, FALSE, l.tries + 1)
          /\ UNCHANGED <<connVars, svcVars, now, stack, node>>
     ELSE \E d \in Durations, ok \in BOOLEAN, body \in Answers(l.ep) :
          /\ ok => Accepts(l.ep, l.json)
          /\ now' = IF InPoll(t) THEN Tick(now, d) ELSE now
          /\ ev' = Ev("req", l.ep, ok, l.json)
          /\ IF ok
             THEN /\ Serve(l.ep, l.json)
                  /\ Pop(t)
                  /\ loc' = [loc EXCEPT ![t].res = TRUE, ![t].resp = body,
                                        ![t].lateTries = @ + LateTry(t),
                                        ![t].tries = @ + 1, ![t].first200 = l.tries + 1,
                                        ![t].sawOwn = @ \/ (l.ep = "control-token:GET"
                                                            /\ body.activeToken # None
                                                            /\ body.activeToken = control_token_id)]
             ELSE /\ loc' = [loc EXCEPT ![t].attempts = @ + 1, ![t].tries = @ + 1,
                                        ![t].clean = IF InPoll(t) /\ l.grant = "early"
                                                     THEN FALSE ELSE @,
                                        ![t].lateTries = @ + LateTry(t)]
                  /\ UNCHANGED <<svcVars, stack>>
          /\ UNCHANGED <<connVars, node>>

\* the loop ends without a 200: return (False, None)
GiveUp(t) ==
  /\ Top(t) = "call"
  /\ ~LoopGuard(loc[t])
  /\ Pop(t)
  /\ loc' = [loc EXCEPT ![t].res = FALSE, ![t].resp = NoResp]
  /\ ev' = Ev("callret", loc[t].ep, FALSE, loc[t].tries)
  /\ UNCHANGED <<connVars, svcVars, now, node>>


\* the locals of a finished __call are dead
Clr(l) == [l EXCEPT !.ep = "none", !.json = None, !.retries = 0, !.attempts = 0,
                    !.res = FALSE, !.resp = NoResp, !.tries = 0, !.first200 = 0]

\* ------------------------------------------------- login, logout, connect
\* login(retries): the call
Login(t) ==
  /\ Top(t) = "login"
  /\ Goto(t, <<"call", "login_1">>)
  /\ loc' = [loc EXCEPT ![t] = SetCall(@, "login", None, @.arg)]
  /\ ev' = NoEv
  /\ UNCHANGED <<connVars, svcVars, now, node>>

\* login: on success the body becomes the authorization cookie
LoginRet(t) ==
  /\ Top(t) = "login_1"
  /\ LET l == loc[t] IN
     /\ IF l.res
        THEN cookie' = l.resp.cred /\ connected' = TRUE
        ELSE UNCHANGED <<cookie, connected>>
     /\ Pop(t)
     /\ loc' = [loc EXCEPT ![t] = [Clr(@) EXCEPT !.ret = l.res]]
     /\ ev' = Ev("ret", "login", l.res, None)
  /\ UNCHANGED <<session, version, control_token_req, control_token, control_token_id,
                 header, svcVars, now, node>>

Logout(t) ==
  /\ Top(t) = "logout"
  /\ Goto(t, <<"call", "logout_1">>)
  /\ loc' = [loc EXCEPT ![t] = SetCall(@, "logout", None, DefaultRetries)]
  /\ ev' = NoEv
  /\ UNCHANGED <<connVars, svcVars, now, node>>

\* (mutant) a successful logout also drops the authorization cookie
LogoutRetDropsCookie(t) ==
  /\ Top(t) = "logout_1"
  /\ LET l == loc[t] IN
     /\ connected' = IF l.res THEN FALSE ELSE connected
     /\ cookie' = IF l.res THEN "" ELSE cookie
     /\ Pop(t)
     /\ loc' = [loc EXCEPT ![t] = [Clr(@) EXCEPT !.ret = l.res]]
     /\ ev' = Ev("ret", "logout", l.res, None)
  /\ UNCHANGED <<session, version, control_token_req, control_token, control_token_id,
                 header, svcVars, now, node>>

LogoutRet(t) ==
  /\ Top(t) = "logout_1"
  /\ LET l == loc[t] IN
     /\ connected' = IF l.res THEN FALSE ELSE connected
     /\ Pop(t)
     /\ loc' = [loc EXCEPT ![t] = [Clr(@) EXCEPT !.ret = l.res]]
     /\ ev' = Ev("ret", "logout", l.res, None)
  /\ UNCHANGED <<session, version, control_token_req, control_token, control_token_id,
                 header, cookie, svcVars, now, node>>

\* connect(retries): a new requests.Session (no cookie, no X-Control-Token), then login
Connect(t) ==
  /\ Top(t) = "connect"
  /\ session' = TRUE
  /\ header' = None
  /\ cookie' = ""
  /\ Goto(t, <<"login", "connect_1">>)
  /\ node' = [node EXCEPT !.connectOK = FALSE]
  /\ ev' = NoEv
  /\ UNCHANGED <<connected, version, control_token_req, control_token, control_token_id,
                 svcVars, now, loc>>

\* if not self.login(...): return False; then read_system_version
ConnectLogin(t) ==
  /\ Top(t) = "connect_1"
  /\ IF loc[t].ret
     THEN Goto(t, <<"read_system_version", "connect_2">>) /\ ev' = NoEv
     ELSE Pop(t) /\ ev' = Ev("ret", "connect", FALSE, None)
  /\ UNCHANGED <<connVars, svcVars, now, loc, node>>

\* if not self.read_system_version(): return False; return True
ConnectRet(t) ==
  /\ Top(t) = "connect_2"
  /\ Pop(t)
  /\ ev' = Ev("ret", "connect", loc[t].ret, None)
  /\ node' = [node EXCEPT !.connectOK = loc[t].ret]
  /\ UNCHANGED <<connVars, svcVars, now, loc>>

\* ------------------------------------------------------ read_system_version
ReadSystemVersion(t) ==
  /\ Top(t) = "read_system_version"
  /\ Goto(t, <<"call", "rsv_1">>)
  /\ loc' = [loc EXCEPT ![t] = SetCall(@, "system-version", None, DefaultRetries)]
  /\ ev' = NoEv
  /\ UNCHANGED <<connVars, svcVars, now, node>>

\* the flag read_system_version leaves, given the parsed version
TokenReqAfter(req, v) == IF VersionGE(v, SpocVersion) THEN TRUE ELSE req

ReadSystemVersionRet(t) ==
  /\ Top(t) = "rsv_1"
  /\ LET l == loc[t] IN
     /\ l.res => Parses(FirstLine(l.resp.text))
     /\ IF l.res
        THEN /\ version' = FirstLine(l.resp.text)
             /\ control_token_req' = TokenReqAfter(control_token_req, FirstLine(l.resp.text))
        ELSE UNCHANGED <<version, control_token_req>>
     /\ Pop(t)
     /\ loc' = [loc EXCEPT ![t] = [Clr(@) EXCEPT !.ret = l.res]]
     /\ ev' = Ev("ret", "read_system_version", l.res, IF l.res THEN 1 ELSE None)
  /\ UNCHANGED <<session, connected, control_token, control_token_id, header, cookie,
                 svcVars, now, node>>

\* an exception leaves the method and every caller of it: nothing catches it
Escape(t, method) ==
  /\ stack' = [stack EXCEPT ![t] = <<>>]
  /\ loc' = [loc EXCEPT ![t] = [Clr(@) EXCEPT !.ret = FALSE]]
  /\ ev' = Ev("exc", method, FALSE, 0)

\* status 200 with a first line that is no version: self.version is set, then
\* version.parse(self.version) either raises InvalidVersion (packaging >= 22)
\* or gives a LegacyVersion, which is below every release (older packaging)
ReadSystemVersionBad(t) ==
  /\ Top(t) = "rsv_1"
  /\ LET l == loc[t] IN
     /\ l.res /\ ~Parses(FirstLine(l.resp.text))
     /\ version' = FirstLine(l.resp.text)
     /\ \/ Escape(t, "read_system_version")
        \/ /\ Pop(t)
           /\ loc' = [loc EXCEPT ![t] = [Clr(@) EXCEPT !.ret = TRUE]]
           /\ ev' = Ev("ret", "read_system_version", TRUE, 0)
  /\ UNCHANGED <<session, connected, control_token_req, control_token, control_token_id,
                 header, cookie, svcVars, now, node>>

\* --------------------------------------------------- is_control_token_active
IsControlTokenActive(t) ==
  /\ Top(t) = "is_control_token_active"
  /\ Goto(t, <<"call", "ica_1">>)
  /\ loc' = [loc EXCEPT ![t] = [SetCall(@, "control-token:GET", None, DefaultRetries)
                                 EXCEPT !.icaCount = Bump(@)]]
  /\ ev' = Ev("begin", "is_control_token_active", InPoll(t), now)
  /\ UNCHANGED <<connVars, svcVars, now, node>>

\* (mutant) the null check of activeToken is missing
ActiveResultNoNull(res, resp, id) ==
  IF ~res THEN FALSE ELSE resp.activeToken = id

\* the value is_control_token_active returns for (res, resp) and the stored id
ActiveResult(res, resp, id) ==
  IF ~res THEN FALSE
  ELSE IF resp.activeToken = None THEN FALSE
  ELSE resp.activeToken = id

\* (mutant) the check adopts the id the service reports
IsControlTokenActiveRetAdopts(t) ==
  /\ Top(t) = "ica_1"
  /\ LET l == loc[t]
         r == ActiveResult(l.res, l.resp, control_token_id) IN
     /\ Pop(t)
     /\ loc' = [loc EXCEPT ![t] = [Clr(@) EXCEPT !.ret = r, !.authOK = r]]
     /\ control_token_id' = IF l.res THEN l.resp.activeToken ELSE control_token_id
     /\ ev' = Ev("ret", "is_control_token_active", r,
                 IF l.res THEN l.resp.activeToken ELSE Failed)
  /\ UNCHANGED <<session, connected, version, control_token_req, control_token, header,
                 cookie, svcVars, now, node>>

IsControlTokenActiveRet(t) ==
  /\ Top(t) = "ica_1"
  /\ LET l == loc[t]
         r == ActiveResult(l.res, l.resp, control_token_id) IN
     /\ Pop(t)
     /\ loc' = [loc EXCEPT ![t] = [Clr(@) EXCEPT !.ret = r, !.authOK = r]]
     /\ ev' = Ev("ret", "is_control_token_active", r,
                 IF l.res THEN l.resp.activeToken ELSE Failed)
  /\ UNCHANGED <<connVars, svcVars, now, node>>

\* ------------------------------------------------------------- can_control
\* (mutant) the activity check is made whatever control_token_req says
CanControlAlwaysAsks(t) ==
  /\ Top(t) = "can_control"
  /\ Goto(t, <<"is_control_token_active", "cc_1">>)
  /\ ev' = NoEv
  /\ UNCHANGED <<connVars, svcVars, now, loc, node>>

CanControl(t) ==
  /\ Top(t) = "can_control"
  /\ IF control_token_req
     THEN Goto(t, <<"is_control_token_active", "cc_1">>) /\ ev' = NoEv /\ UNCHANGED loc
     ELSE /\ Pop(t)
          /\ loc' = [loc EXCEPT ![t].ret = TRUE]
          /\ ev' = Ev("ret", "can_control", TRUE, loc[t].icaCount)
  /\ UNCHANGED <<connVars, svcVars, now, node>>

CanControlRet(t) ==
  /\ Top(t) = "cc_1"
  /\ LET r == IF loc[t].ret THEN TRUE
              ELSE IF ~control_token_req THEN TRUE ELSE FALSE IN
     /\ Pop(t)
     /\ loc' = [loc EXCEPT ![t].ret = r]
     /\ ev' = Ev("ret", "can_control", r, loc[t].icaCount)
  /\ UNCHANGED <<connVars, svcVars, now, node>>


\* ---------------------------------------------------- acquire_control_token
\* the locals of a finished acquire_control_token (force and timeout stay for
\* the observation, until the next operation begins)
ClrAcq(l) == Clr(l)

\* if force: query /admin/api/safety; else: the standard token request
Acquire(t) ==
  /\ Top(t) = "acquire_control_token"
  /\ IF loc[t].force
     THEN /\ Goto(t, <<"call", "acq_safety">>)
          /\ loc' = [loc EXCEPT ![t] = [SetCall(@, "safety", None, DefaultRetries)
                                         EXCEPT !.sawOwn = FALSE, !.reqOK = FALSE]]
     ELSE /\ Goto(t, <<"call", "acq_store">>)
          /\ loc' = [loc EXCEPT ![t] = [SetCall(@, "request", None, DefaultRetries)
                                         EXCEPT !.sawOwn = FALSE, !.reqOK = FALSE]]
  /\ ev' = NoEv
  /\ UNCHANGED <<connVars, svcVars, now, node>>

\* if not res: return False; timeout = ...['tokenForceTimeout']; the forced request
AcquireSafety(t) ==
  /\ Top(t) = "acq_safety"
  /\ LET l == loc[t] IN
     IF l.res
     THEN /\ Goto(t, <<"call", "acq_store">>)
          /\ loc' = [loc EXCEPT ![t] = [SetCall(@, "request?force", None, DefaultRetries)
                                         EXCEPT !.timeout = l.resp.tokenForceTimeout]]
          /\ ev' = NoEv
     ELSE /\ Pop(t)
          /\ loc' = [loc EXCEPT ![t] = [ClrAcq(@) EXCEPT !.ret = FALSE]]
          /\ ev' = Ev("ret", "acquire_control_token", FALSE, None)
  /\ UNCHANGED <<connVars, svcVars, now, node>>

\* (mutant) a failed token request forgets the token stored before
AcquireStoreTokenResets(t) ==
  /\ Top(t) = "acq_store"
  /\ LET l == loc[t] IN
     IF l.res
     THEN /\ control_token' = l.resp.token
          /\ Goto(t, <<"acq_store_id">>)
          /\ loc' = [loc EXCEPT ![t].reqOK = TRUE]
          /\ ev' = NoEv
     ELSE /\ Pop(t)
          /\ loc' = [loc EXCEPT ![t] = [ClrAcq(@) EXCEPT !.ret = FALSE]]
          /\ ev' = Ev("ret", "acquire_control_token", FALSE, None)
          /\ control_token' = None
  /\ UNCHANGED <<session, connected, version, control_token_req, control_token_id,
                 header, cookie, svcVars, now, node>>

\* if not res: return False; self.control_token = ...['token']
AcquireStoreToken(t) ==
  /\ Top(t) = "acq_store"
  /\ LET l == loc[t] IN
     IF l.res
     THEN /\ control_token' = l.resp.token
          /\ Goto(t, <<"acq_store_id">>)
          /\ loc' = [loc EXCEPT ![t].reqOK = TRUE]
          /\ ev' = NoEv
     ELSE /\ Pop(t)
          /\ loc' = [loc EXCEPT ![t] = [ClrAcq(@) EXCEPT !.ret = FALSE]]
          /\ ev' = Ev("ret", "acquire_control_token", FALSE, None)
          /\ UNCHANGED control_token
  /\ UNCHANGED <<session, connected, version, control_token_req, control_token_id,
                 header, cookie, svcVars, now, node>>

\* self.control_token_id = ...['id']
AcquireStoreId(t) ==
  /\ Top(t) = "acq_store_id"
  /\ control_token_id' = loc[t].resp.id
  /\ Goto(t, <<"acq_store_hdr">>)
  /\ ev' = NoEv
  /\ UNCHANGED <<session, connected, version, control_token_req, control_token,
                 header, cookie, svcVars, now, loc, node>>

\* self.session.headers.update({'X-Control-Token': self.control_token}); then
\* force: control_acquired = False; start = time.time()
\* else : return self.is_control_token_active()
AcquireStoreHeader(t) ==
  /\ Top(t) = "acq_store_hdr"
  /\ header' = control_token
  /\ IF loc[t].force
     THEN /\ Goto(t, <<"acq_poll">>)
          /\ now' = 0
          /\ loc' = [loc EXCEPT ![t] =
                       [Clr(@) EXCEPT !.grant = IF svcActive = control_token_id
                                                THEN When(0, loc[t].timeout) ELSE "none",
                                      !.clean = TRUE, !.lateTries = 0]]
     ELSE /\ Goto(t, <<"is_control_token_active", "acq_std_ret">>)
          /\ loc' = [loc EXCEPT ![t] = Clr(@)]
          /\ UNCHANGED now
  /\ ev' = NoEv
  /\ UNCHANGED <<session, connected, version, control_token_req, control_token,
                 control_token_id, cookie, svcVars, node>>

\* (mutant) the loop still runs when the timeout has just elapsed
PollGuardInclusive(l, clock) == clock <= 0 + l.timeout

\* while time.time() < start + timeout   (start is 0 on the model's clock)
PollGuard(l, clock) == clock < 0 + l.timeout

\* the loop head: another activity query, or the loop ends and
\* control_acquired (still False) is returned
AcquirePoll(t) ==
  /\ Top(t) = "acq_poll"
  /\ IF PollGuard(loc[t], now)
     THEN /\ Goto(t, <<"is_control_token_active", "acq_poll_1">>)
          /\ ev' = NoEv
          /\ UNCHANGED <<loc, now>>
     ELSE /\ Pop(t)
          /\ loc' = [loc EXCEPT ![t] = [ClrAcq(@) EXCEPT !.ret = FALSE]]
          /\ ev' = Ev("ret", "acquire_control_token", FALSE, now)
          /\ now' = 0
  /\ UNCHANGED <<connVars, svcVars, node>>

\* (mutant) the loop gives up after the first query that says no
AcquirePollRetOnce(t) ==
  /\ Top(t) = "acq_poll_1"
  /\ Pop(t)
  /\ loc' = [loc EXCEPT ![t] = [ClrAcq(@) EXCEPT !.ret = loc[t].ret]]
  /\ ev' = Ev("ret", "acquire_control_token", loc[t].ret, now)
  /\ now' = 0
  /\ UNCHANGED <<connVars, svcVars, node>>

\* if self.is_control_token_active(): control_acquired = True; break
AcquirePollRet(t) ==
  /\ Top(t) = "acq_poll_1"
  /\ IF loc[t].ret
     THEN /\ Pop(t)
          /\ loc' = [loc EXCEPT ![t] = [ClrAcq(@) EXCEPT !.ret = TRUE]]
          /\ ev' = Ev("ret", "acquire_control_token", TRUE, now)
          /\ now' = 0
     ELSE /\ Goto(t, <<"acq_poll">>)
          /\ ev' = NoEv
          /\ UNCHANGED <<loc, now>>
  /\ UNCHANGED <<connVars, svcVars, node>>

\* (mutant) a standard request that lost asks once more before it gives up
AcquireStdRetAgain(t) ==
  /\ Top(t) = "acq_std_ret"
  /\ IF ~loc[t].ret /\ loc[t].icaCount < 2
     THEN Goto(t, <<"is_control_token_active", "acq_std_ret">>) /\ ev' = NoEv /\ UNCHANGED loc
     ELSE /\ Pop(t)
          /\ loc' = [loc EXCEPT ![t] = ClrAcq(@)]
          /\ ev' = Ev("ret", "acquire_control_token", loc[t].ret, None)
  /\ UNCHANGED <<connVars, svcVars, now, node>>

\* return self.is_control_token_active()
AcquireStdRet(t) ==
  /\ Top(t) = "acq_std_ret"
  /\ Pop(t)
  /\ loc' = [loc EXCEPT ![t] = ClrAcq(@)]
  /\ ev' = Ev("ret", "acquire_control_token", loc[t].ret, None)
  /\ UNCHANGED <<connVars, svcVars, now, node>>

\* ---------------------------------------------------- release_control_token
\* (mutant) the request carries the token's id instead of its value
ReleaseControlTokenById(t) ==
  /\ Top(t) = "release_control_token"
  /\ Goto(t, <<"call", "rel_1">>)
  /\ loc' = [loc EXCEPT ![t] = SetCall(@, "control-token:DELETE", control_token_id,
                                       DefaultRetries)]
  /\ ev' = NoEv
  /\ UNCHANGED <<connVars, svcVars, now, node>>

ReleaseControlToken(t) ==
  /\ Top(t) = "release_control_token"
  /\ Goto(t, <<"call", "rel_1">>)
  /\ loc' = [loc EXCEPT ![t] = SetCall(@, "control-token:DELETE", control_token,
                                       DefaultRetries)]
  /\ ev' = NoEv
  /\ UNCHANGED <<connVars, svcVars, now, node>>

\* if self.__call(...)[0]: self.control_token == None; return True
\* (a comparison, not an assignment: the stored token stays)
ReleaseControlTokenRet(t) ==
  /\ Top(t) = "rel_1"
  /\ Pop(t)
  /\ loc' = [loc EXCEPT ![t] = [Clr(@) EXCEPT !.ret = loc[t].res,
                                              !.tries = loc[t].tries,
                                              !.first200 = loc[t].first200]]
  /\ ev' = Ev("ret", "release_control_token", loc[t].res, loc[t].json)
  /\ UNCHANGED <<connVars, svcVars, now, node>>

\* --------------------------------------------- FCI, brakes, gripper homing
\* each is return self.__call(...)[0]
Passthrough(t, method, ep, js) ==
  /\ Top(t) = method
  /\ Goto(t, <<"call", "pass_1">>)
  /\ loc' = [loc EXCEPT ![t] = SetCall(@, ep, js, DefaultRetries)]
  /\ ev' = NoEv
  /\ UNCHANGED <<connVars, svcVars, now, node>>

EnableFci(t)   == Passthrough(t, "enable_fci", "fci:POST", control_token)
DisableFci(t)  == Passthrough(t, "disable_fci", "fci:DELETE", control_token)
OpenBrakes(t)  == Passthrough(t, "open_brakes", "open-brakes", None)
CloseBrakes(t) == Passthrough(t, "close_brakes", "close-brakes", None)
HomeGripper(t) == Passthrough(t, "home_gripper", "homing", None)

MethodOf(ep) ==
  CASE ep = "fci:POST" -> "enable_fci"
    [] ep = "fci:DELETE" -> "disable_fci"
    [] ep = "open-brakes" -> "open_brakes"
    [] ep = "close-brakes" -> "close_brakes"
    [] OTHER -> "home_gripper"

\* the [0] of the tuple __call returned
PassthroughRet(t) ==
  /\ Top(t) = "pass_1"
  /\ Pop(t)
  /\ loc' = [loc EXCEPT ![t] = [Clr(@) EXCEPT !.ret = loc[t].res]]
  /\ ev' = Ev("ret", MethodOf(loc[t].ep), loc[t].res, loc[t].json)
  /\ UNCHANGED <<connVars, svcVars, now, node>>


\* ------------------------------------------------------------ the connector
\* PandaHandlerNode: where main is, whether rospy was shut down, and main's
\* parameters (connection_retries, auto_acquire_control, force_auto_acquire,
\* auto_open_brakes, auto_home_gripper, auto_enable_fci); connectOK observes
\* that connect() has returned True for the present session
NodeOff == [phase |-> "library", shutdown |-> FALSE, connectOK |-> FALSE,
            retries |-> 0, acquire |-> FALSE,
            force |-> FALSE, brakes |-> FALSE, gripper |-> FALSE, fci |-> FALSE]

Methods == {"connect", "login", "logout", "read_system_version",
            "acquire_control_token", "can_control", "is_control_token_active",
            "release_control_token", "enable_fci", "disable_fci", "open_brakes",
            "close_brakes", "home_gripper"}

\* PandaConnector.__init__, and a Desk service nobody controls yet
ConnInit ==
  /\ session = FALSE
  /\ connected = FALSE
  /\ version = NoVersion
  /\ control_token_req = FALSE
  /\ control_token = None
  /\ control_token_id = None
  /\ header = None
  /\ cookie = ""
  /\ sysVersion \in Firmwares
  /\ svcActive \in {None, OtherId}
  /\ svcNext = 1
  /\ now = 0
  /\ loc = [t \in Threads |-> L0]
  /\ ev = NoEv

\* the steps of the connector's methods, whoever called them
ConnectStep(t) ==
  \/ Attempt(t) \/ GiveUp(t)
  \/ Login(t) \/ LoginRet(t)
  \/ Connect(t) \/ ConnectLogin(t) \/ ConnectRet(t)
  \/ ReadSystemVersion(t) \/ ReadSystemVersionRet(t)

SessionStep(t) ==
  \/ ConnectStep(t)
  \/ Logout(t) \/ LogoutRet(t)

ControlStep(t) ==
  \/ IsControlTokenActive(t) \/ IsControlTokenActiveRet(t)
  \/ CanControl(t) \/ CanControlRet(t)
  \/ Acquire(t) \/ AcquireSafety(t) \/ AcquireStoreToken(t) \/ AcquireStoreId(t)
  \/ AcquireStoreHeader(t) \/ AcquirePoll(t) \/ AcquirePollRet(t) \/ AcquireStdRet(t)
  \/ ReleaseControlToken(t) \/ ReleaseControlTokenRet(t)
  \/ EnableFci(t) \/ DisableFci(t) \/ OpenBrakes(t) \/ CloseBrakes(t) \/ HomeGripper(t)
  \/ PassthroughRet(t)

Env ==
  \/ \E id \in OtherId..MaxTokens : EnvActivate(id)
  \/ EnvRelease

\* ---------------------------------------------------------------- Spec
\* The connector used as a library: a caller invokes its methods one after
\* another, in any order and with any arguments.
Invoke(t, m, r, f) ==
  /\ Idle(t)
  /\ stack' = [stack EXCEPT ![t] = <<m>>]
  /\ loc' = [loc EXCEPT ![t] = [L0 EXCEPT !.arg = r, !.force = f]]
  /\ ev' = Ev("invoke", m, f, r)
  /\ UNCHANGED <<connVars, svcVars, now, node>>

Init ==
  /\ ConnInit
  /\ stack = [t \in Threads |-> <<>>]
  /\ node = NodeOff

Next ==
  \/ \E m \in Methods \ {"connect", "login", "acquire_control_token"} :
        Invoke(MainThread, m, 0, FALSE)
  \/ \E m \in {"connect", "login"}, r \in 0..MaxRetries : Invoke(MainThread, m, r, FALSE)
  \/ \E f \in BOOLEAN : Invoke(MainThread, "acquire_control_token", 0, f)
  \/ SessionStep(MainThread)
  \/ ControlStep(MainThread)
  \/ Env

Spec == Init /\ [][Next]_vars


\* ---------------------------------------------------------------- SpecFw
\* The session methods alone, against an arm whose firmware is replaced
\* between two version queries.
NextFw ==
  \/ \E m \in {"logout", "read_system_version"} : Invoke(MainThread, m, 0, FALSE)
  \/ \E m \in {"connect", "login"}, r \in 0..MaxRetries : Invoke(MainThread, m, r, FALSE)
  \/ SessionStep(MainThread)
  \/ ReadSystemVersionBad(MainThread)
  \/ \E v \in Versions \cup {BadVersion} : EnvFirmware(v)

SpecFw == Init /\ [][NextFw]_vars

\* ---------------------------------------------------------------- SpecRace
\* Two callers of the same connector (service handlers run in threads of
\* their own): after a connect, each asks for control (force=False, the
\* three stores of lines 117-119) whenever it is idle, and their statements
\* interleave.
AcquireStep(t) ==
  \/ Attempt(t) \/ GiveUp(t)
  \/ Acquire(t) \/ AcquireStoreToken(t) \/ AcquireStoreId(t)
  \/ AcquireStoreHeader(t) \/ AcquireStdRet(t)
  \/ IsControlTokenActive(t) \/ IsControlTokenActiveRet(t)

InitRace ==
  /\ ConnInit
  /\ stack = [t \in Threads |-> <<>>]
  /\ node = [NodeOff EXCEPT !.phase = "callers"]

NextRace ==
  \/ /\ ~node.connectOK
     /\ \A t \in Threads : Idle(t)
     /\ Invoke(MainThread, "connect", 0, FALSE)
  \/ ConnectStep(MainThread)
  \/ \E t \in Threads :
        /\ node.connectOK
        /\ Invoke(t, "acquire_control_token", 0, FALSE)
  \/ \E t \in Threads : AcquireStep(t)

SpecRace == InitRace /\ [][NextRace]_vars

\* ------------------------------------------------------------- fairness
\* A thread that is inside a method goes on running, and time passes: of the
\* attempts made during the force poll, some take time (every attempt
\* returns within its timeout, which Durations already says).
Running(t) == SessionStep(t) \/ ControlStep(t) \/ ReadSystemVersionBad(t)
TimePasses(t) == Attempt(t) /\ now' > now
Fair(t) == WF_vars(Running(t)) /\ SF_vars(TimePasses(t))

SpecLive == Spec /\ Fair(MainThread)
SpecFwLive == SpecFw /\ Fair(MainThread)

\* ------------------------------------------------------- PandaHandlerNode
\* a call of a connector method from the node: the callee, then the return point
CallFrom(t, callee, back, force) ==
  /\ Goto(t, <<callee, back>>)
  /\ loc' = [loc EXCEPT ![t].force = force]
  /\ ev' = NoEv
  /\ UNCHANGED <<connVars, svcVars, now, node>>

\* main returns before the services are registered: the node ends
MainAbort(t) ==
  /\ Pop(t)
  /\ node' = [NodeOff EXCEPT !.phase = "exited", !.shutdown = node.shutdown,
                         !.connectOK = node.connectOK]
  /\ loc' = [loc EXCEPT ![t] = L0]
  /\ ev' = Ev("main", "abort", FALSE, None)
  /\ UNCHANGED <<connVars, svcVars, now>>

MainGoto(t, lbl) ==
  /\ Goto(t, <<lbl>>)
  /\ ev' = NoEv
  /\ UNCHANGED <<connVars, svcVars, now, loc, node>>

\* main: the connector is made; the connect loop runs only if connection_retries < 0
Main(t) ==
  /\ Top(t) = "main"
  /\ MainGoto(t, IF node.retries < 0 THEN "m_loop" ELSE "m_login_ok")

\* while not rospy.is_shutdown(): if self.panda_connector.connect(retries=0): break
MainLoop(t) ==
  /\ Top(t) = "m_loop"
  /\ IF node.shutdown
     THEN MainGoto(t, "m_login_ok")
     ELSE /\ Goto(t, <<"connect", "m_loop_1">>)
          /\ loc' = [loc EXCEPT ![t].arg = 0]
          /\ ev' = NoEv
          /\ UNCHANGED <<connVars, svcVars, now, node>>

\* break, or "Connection failed, retrying in 5 seconds"
MainLoopRet(t) ==
  /\ Top(t) = "m_loop_1"
  /\ MainGoto(t, IF loc[t].ret THEN "m_login_ok" ELSE "m_loop")

\* "Login successful"; if control_token_req and auto_acquire_control: the
\* standard request
MainAcquire(t) ==
  /\ Top(t) = "m_login_ok"
  /\ IF control_token_req /\ node.acquire
     THEN CallFrom(t, "acquire_control_token", "m_acquire_1", FALSE)
     ELSE MainGoto(t, "m_brakes")

\* acquired; else, if force_auto_acquire, the forced request; else return
MainAcquireRet(t) ==
  /\ Top(t) = "m_acquire_1"
  /\ IF loc[t].ret THEN MainGoto(t, "m_brakes")
     ELSE IF node.force THEN CallFrom(t, "acquire_control_token", "m_acquire_2", TRUE)
     ELSE MainAbort(t)

MainForceRet(t) ==
  /\ Top(t) = "m_acquire_2"
  /\ IF loc[t].ret THEN MainGoto(t, "m_brakes") ELSE MainAbort(t)

\* if auto_open_brakes: open_brakes, return if it fails
MainBrakes(t) ==
  /\ Top(t) = "m_brakes"
  /\ IF node.brakes THEN CallFrom(t, "open_brakes", "m_brakes_1", FALSE)
     ELSE MainGoto(t, "m_gripper")

MainBrakesRet(t) ==
  /\ Top(t) = "m_brakes_1"
  /\ IF loc[t].ret THEN MainGoto(t, "m_gripper") ELSE MainAbort(t)

\* if auto_home_gripper: home_gripper, return if it fails
MainGripper(t) ==
  /\ Top(t) = "m_gripper"
  /\ IF node.gripper THEN CallFrom(t, "home_gripper", "m_gripper_1", FALSE)
     ELSE MainGoto(t, "m_fci")

MainGripperRet(t) ==
  /\ Top(t) = "m_gripper_1"
  /\ IF loc[t].ret THEN MainGoto(t, "m_fci") ELSE MainAbort(t)

\* if auto_enable_fci: enable_fci, return if it fails
MainFci(t) ==
  /\ Top(t) = "m_fci"
  /\ IF node.fci THEN CallFrom(t, "enable_fci", "m_fci_1", FALSE)
     ELSE MainGoto(t, "m_services")

MainFciRet(t) ==
  /\ Top(t) = "m_fci_1"
  /\ IF loc[t].ret THEN MainGoto(t, "m_services") ELSE MainAbort(t)

\* the seven rospy.Service(...) and rospy.spin()
MainServices(t) ==
  /\ Top(t) = "m_services"
  /\ Pop(t)
  /\ node' = [NodeOff EXCEPT !.phase = "spinning", !.shutdown = node.shutdown,
                         !.connectOK = node.connectOK]
  /\ loc' = [loc EXCEPT ![t] = L0]
  /\ ev' = Ev("main", "services", TRUE, None)
  /\ UNCHANGED <<connVars, svcVars, now>>

MainStep(t) ==
  \/ Main(t) \/ MainLoop(t) \/ MainLoopRet(t)
  \/ MainAcquire(t) \/ MainAcquireRet(t) \/ MainForceRet(t)
  \/ MainBrakes(t) \/ MainBrakesRet(t)
  \/ MainGripper(t) \/ MainGripperRet(t)
  \/ MainFci(t) \/ MainFciRet(t)
  \/ MainServices(t)

\* ---- the service handlers
\* the handler returns its response (success flag; the message is left out)
Respond(t, handler, success) ==
  /\ Pop(t)
  /\ ev' = Ev("resp", handler, success, None)
  /\ UNCHANGED <<connVars, svcVars, now, loc, node>>

\* handle_acquire_control: if can_control(): "already has control"
HandleAcquire(t) ==
  /\ Top(t) = "handle_acquire_control"
  /\ CallFrom(t, "can_control", "h_acquire_1", loc[t].force)

\* elif not acquire_control_token(force=req.data): ...
HandleAcquireCan(t) ==
  /\ Top(t) = "h_acquire_1"
  /\ IF loc[t].ret THEN Respond(t, "handle_acquire_control", TRUE)
     ELSE CallFrom(t, "acquire_control_token", "h_acquire_2", loc[t].force)

HandleAcquireRet(t) ==
  /\ Top(t) = "h_acquire_2"
  /\ Respond(t, "handle_acquire_control", loc[t].ret)

\* handle_release_control: if not can_control(): "does not have control authority"
HandleRelease(t) ==
  /\ Top(t) = "handle_release_control"
  /\ CallFrom(t, "can_control", "h_release_1", FALSE)

\* if not control_token_req: "doesn't require"; elif not release_control_token(): ...
HandleReleaseCan(t) ==
  /\ Top(t) = "h_release_1"
  /\ IF ~loc[t].ret THEN Respond(t, "handle_release_control", TRUE)
     ELSE IF ~control_token_req THEN Respond(t, "handle_release_control", TRUE)
     ELSE CallFrom(t, "release_control_token", "h_release_2", FALSE)

HandleReleaseRet(t) ==
  /\ Top(t) = "h_release_2"
  /\ Respond(t, "handle_release_control", loc[t].ret)

\* handle_enable_fci / handle_disable_fci: if not is_control_token_active(): refuse
HandleFci(t, handler, back) ==
  /\ Top(t) = handler
  /\ CallFrom(t, "is_control_token_active", back, FALSE)

HandleEnableFci(t)  == HandleFci(t, "handle_enable_fci", "h_enable_fci_1")
HandleDisableFci(t) == HandleFci(t, "handle_disable_fci", "h_disable_fci_1")

HandleFciActive(t, at, handler, method) ==
  /\ Top(t) = at
  /\ IF ~loc[t].ret THEN Respond(t, handler, FALSE)
     ELSE CallFrom(t, method, "h_result", FALSE)

HandleEnableFciActive(t) ==
  HandleFciActive(t, "h_enable_fci_1", "handle_enable_fci", "enable_fci")
HandleDisableFciActive(t) ==
  HandleFciActive(t, "h_disable_fci_1", "handle_disable_fci", "disable_fci")

\* handle_open_brakes, handle_close_brakes, handle_home_gripper: the command at once
HandleDirect(t, handler, method) ==
  /\ Top(t) = handler
  /\ CallFrom(t, method, "h_result", FALSE)

HandleOpenBrakes(t)  == HandleDirect(t, "handle_open_brakes", "open_brakes")
HandleCloseBrakes(t) == HandleDirect(t, "handle_close_brakes", "close_brakes")
HandleHomeGripper(t) == HandleDirect(t, "handle_home_gripper", "home_gripper")

\* the response of a handler whose last step was the command itself
HandleResult(t) ==
  /\ Top(t) = "h_result"
  /\ Respond(t, "command", loc[t].ret)

HandlerStep(t) ==
  \/ HandleAcquire(t) \/ HandleAcquireCan(t) \/ HandleAcquireRet(t)
  \/ HandleRelease(t) \/ HandleReleaseCan(t) \/ HandleReleaseRet(t)
  \/ HandleEnableFci(t) \/ HandleEnableFciActive(t)
  \/ HandleDisableFci(t) \/ HandleDisableFciActive(t)
  \/ HandleOpenBrakes(t) \/ HandleCloseBrakes(t) \/ HandleHomeGripper(t)
  \/ HandleResult(t)

Handlers == {"handle_acquire_control", "handle_release_control", "handle_enable_fci",
             "handle_disable_fci", "handle_open_brakes", "handle_close_brakes",
             "handle_home_gripper"}

\* a service call arrives (req.data for control_authority/acquire)
ServiceCall(t, h, data) ==
  /\ node.phase = "spinning"
  /\ ~node.shutdown
  /\ \A u \in Threads : Idle(u)
  /\ stack' = [stack EXCEPT ![t] = <<h>>]
  /\ loc' = [loc EXCEPT ![t] = [L0 EXCEPT !.force = data]]
  /\ ev' = Ev("invoke", h, data, None)
  /\ UNCHANGED <<connVars, svcVars, now, node>>

\* on_shutdown: nothing to do while self.panda_connector is None (main has
\* not made it yet); otherwise its first statement reads
\* self.panda_connector.calling, an attribute PandaConnector does not have:
\* AttributeError leaves the hook before close_brakes, disable_fci, the
\* release and logout. The event tells whether a connector was present and
\* how many of the teardown steps were begun.
OnShutdown ==
  ev' = IF Top(MainThread) = "main"
        THEN Ev("ret", "on_shutdown", FALSE, 0)
        ELSE Ev("exc", "on_shutdown", TRUE, 0)

\* rospy is shut down: the hook registered by main runs, is_shutdown() is true
\* from then on
EnvShutdown ==
  /\ node.phase \in {"main", "spinning"}
  /\ ~node.shutdown
  /\ node' = [node EXCEPT !.shutdown = TRUE]
  /\ OnShutdown
  /\ UNCHANGED <<connVars, svcVars, now, stack, loc>>

\* -------------------------------------------------------------- SpecNode
\* The node: main with any parameters, then the services, one call at a time.
\* Neither main nor a handler calls logout.
InitNode ==
  /\ ConnInit
  /\ stack = [t \in Threads |-> IF t = MainThread THEN <<"main">> ELSE <<>>]
  /\ \E r \in (0 - 1)..1, a, f, b, g, e \in BOOLEAN :
        node = [phase |-> "main", shutdown |-> FALSE, connectOK |-> FALSE,
                retries |-> r, acquire |-> a,
                force |-> f, brakes |-> b, gripper |-> g, fci |-> e]

NextNode ==
  \/ MainStep(MainThread)
  \/ \E h \in Handlers \ {"handle_acquire_control"} : ServiceCall(MainThread, h, FALSE)
  \/ \E data \in BOOLEAN : ServiceCall(MainThread, "handle_acquire_control", data)
  \/ HandlerStep(MainThread)
  \/ ConnectStep(MainThread)
  \/ ControlStep(MainThread)
  \/ Env
  \/ EnvShutdown

SpecNode == InitNode /\ [][NextNode]_vars

\* ===================================================================== claims
\* what the caller's thread observes
Obs == loc[MainThread]
Returned(m) == ev.kind = "ret" /\ ev.name = m
\* the token the service handed out last
LastId == svcNext - 1

\* ---- C2 ----------------------------------------------------------------
\* C2: acquire_control_token(force=False) whose token request succeeded has
\* stored the token value and id of the response and attached the header,
\* has made exactly one activity check and returns that check's result (so
\* false when it did not report our id), with no waiting; without a token
\* response it returns false and makes no check.
Thm_C2_StandardAcquire ==
  (Returned("acquire_control_token") /\ ~Obs.force) =>
     IF Obs.reqOK
     THEN /\ control_token_id = LastId
          /\ control_token = TokenOf(LastId)
          /\ header = control_token
          /\ Obs.icaCount = 1
          /\ ev.val = Obs.authOK
          /\ ev.val = Obs.sawOwn
          /\ now = 0
     ELSE ~ev.val /\ Obs.icaCount = 0

\* a standard request that lost to the other holder: token held, not active
Wit_C2_LostToHolder ==
  /\ Returned("acquire_control_token") /\ ~Obs.force /\ Obs.reqOK
  /\ ~ev.val
  /\ svcActive = OtherId
  /\ control_token = TokenOf(LastId) /\ header = control_token

CE_C4_WaitWithinTimeout ==
  /\ (ev.kind = "begin" /\ ev.val) => ev.n < Obs.timeout
  /\ (Returned("acquire_control_token") /\ Obs.force /\ Obs.reqOK) => ev.n <= Obs.timeout

\* C4 (amended): no activity query begins once the elapsed time is >= the
\* timeout (with timeout 0 none is made and the result is false); the wait
\* goes past the timeout only inside the one query that was running when it
\* elapsed: at most DefaultRetries further attempts are begun after it.
Thm_C4_PollBounded ==
  /\ (ev.kind = "begin" /\ ev.val) => ev.n < Obs.timeout
  /\ InPoll(MainThread) => Obs.lateTries <= DefaultRetries
  /\ (Returned("acquire_control_token") /\ Obs.force /\ Obs.reqOK) =>
        /\ Obs.lateTries <= DefaultRetries
        /\ Obs.timeout = 0 => (~ev.val /\ Obs.icaCount = 0)
        /\ (~ev.val) => ev.n >= Obs.timeout

\* the poll returned long after the timeout: its last query used all its retries
Wit_C4_OverranTimeout ==
  /\ Returned("acquire_control_token") /\ Obs.force /\ Obs.reqOK
  /\ ev.n > Obs.timeout
  /\ Obs.lateTries = DefaultRetries

\* ---- C5 ----------------------------------------------------------------
\* C5: is_control_token_active returns false when the query failed, false
\* when the service reports activeToken null, and otherwise true exactly
\* when the reported id equals the stored control_token_id, whatever is
\* stored (nothing included) and whatever is reported.
Thm_C5_ActiveIffIdMatches ==
  Returned("is_control_token_active") =>
     ev.val = (ev.n # Failed /\ ev.n # None /\ ev.n = control_token_id)

\* a token is stored, the service reports the other user's: false
Wit_C5_OtherHolderReported ==
  /\ Returned("is_control_token_active")
  /\ control_token_id \in OurIds
  /\ ev.n = OtherId
  /\ ~ev.val

\* ---- C6 ----------------------------------------------------------------
\* C6: can_control returns true whenever control_token_req is false, without
\* making any activity query; with control_token_req true it makes one query
\* and returns its result.
Thm_C6_CanControl ==
  Returned("can_control") =>
     IF control_token_req
     THEN ev.n = 1 /\ ev.val = Obs.authOK
     ELSE ev.n = 0 /\ ev.val

\* connected to a firmware below 4.2.0, open_brakes succeeded and no control
\* token was ever handed out, stored or attached
Wit_C6_BrakesOpenWithoutToken ==
  /\ Returned("open_brakes") /\ ev.val
  /\ version # NoVersion /\ ~VersionGE(version, SpocVersion)
  /\ ~control_token_req
  /\ control_token = None /\ control_token_id = None /\ header = None
  /\ svcNext = 1

\* ---- C7 ----------------------------------------------------------------
\* C7: __call with retries = N stops at the first attempt answered 200 and
\* returns it; when no attempt is answered 200 it makes exactly N + 1
\* attempts and returns failure.
Thm_C7_AttemptCount ==
  /\ Top(MainThread) = "call" =>
        (Obs.first200 = 0 /\ Obs.tries = Obs.attempts /\ Obs.tries <= Obs.retries + 1)
  /\ (ev.kind = "req" /\ ev.val) =>
        /\ Top(MainThread) # "call"
        /\ Obs.res
        /\ Obs.first200 = Obs.tries
        /\ Obs.tries <= Obs.retries + 1
  /\ ev.kind = "callret" =>
        /\ ~Obs.res
        /\ Obs.first200 = 0
        /\ ev.n = Obs.retries + 1

\* the last attempt the default retries allow was the one answered 200
Wit_C7_LastAttemptSucceeds ==
  /\ ev.kind = "req" /\ ev.val
  /\ Obs.retries = DefaultRetries
  /\ Obs.first200 = DefaultRetries + 1

\* ---- C8 ----------------------------------------------------------------
\* C8: release_control_token makes no activity check; with a session it
\* sends DELETE carrying the stored token value, active or not, and returns
\* true exactly when one attempt of that request was answered 200.
Thm_C8_ReleaseRegardless ==
  /\ (ev.kind = "req" /\ ev.name = "control-token:DELETE") => ev.n = control_token
  /\ Returned("release_control_token") =>
        /\ Obs.icaCount = 0
        /\ session => Obs.tries >= 1
        /\ ev.n = control_token
        /\ ev.val = (Obs.first200 > 0)

\* the other user holds control: the release of our token still succeeds
Wit_C8_ReleaseOfInactiveToken ==
  /\ Returned("release_control_token") /\ ev.val
  /\ control_token_id \in OurIds
  /\ svcActive = OtherId

\* ---- C9 ----------------------------------------------------------------
\* C9: after release_control_token returned true no control token is stored
\* any more.
CE_C9_ReleaseClearsToken ==
  (Returned("release_control_token") /\ ev.val) => control_token = None

\* ---- C10 ---------------------------------------------------------------
\* C10: after every successful read_system_version control_token_req is true
\* exactly when the version it parsed is >= 4.2.0.
CE_C10_FlagIffVersion ==
  (Returned("read_system_version") /\ ev.val) =>
     (control_token_req = VersionGE(version, SpocVersion))

\* ---- C1 ----------------------------------------------------------------
\* C1: an open-brakes or enable-FCI request is sent only when
\* control_token_req is false or the command that sends it has had the
\* token verified active by is_control_token_active.
CE_C1_CommandsGated ==
  (ev.kind = "req" /\ ev.name \in {"open-brakes", "fci:POST"}) =>
     (~control_token_req \/ Obs.authOK)

\* ---- C11 ---------------------------------------------------------------
\* C11: when the version query is answered 200 with a body that is no
\* version string, read_system_version returns false: the failure is an
\* ordinary boolean one and no error escapes.
CE_C11_UnparsableGivesFalse ==
  (ev.name = "read_system_version" /\ ev.kind \in {"ret", "exc"} /\ ev.n = 0) =>
     (ev.kind = "ret" /\ ~ev.val)

\* ---- C12 ---------------------------------------------------------------
\* C12: once a connect has succeeded, no step changes control_token_req
\* until connect makes a new session (a further read_system_version
\* included), and when a connect succeeds the flag is the value that
\* session's own version query gives.
CE_C12_FlagFixedPerSession ==
  [][ /\ node.connectOK => (control_token_req' = control_token_req)
      /\ (~node.connectOK /\ node'.connectOK) =>
            (control_token_req' = VersionGE(version', SpocVersion)) ]_vars

\* ---- C13 ---------------------------------------------------------------
\* C13: on_shutdown with a connector present attempts close-brakes, then
\* disable-FCI, then the release of the control token, whatever the earlier
\* steps gave: it ends normally with all three steps begun.
CE_C13_TeardownInOrder ==
  (ev.name = "on_shutdown" /\ ev.val) => (ev.kind = "ret" /\ ev.n = 3)

\* ---- C14 ---------------------------------------------------------------
\* C14: every connector operation that is begun eventually ends (Terminates),
\* and it ends by returning a boolean: no operation ends with an escaping
\* error.
Terminates == (~Idle(MainThread)) ~> Idle(MainThread)
CE_C14_EndsWithBoolean == [](ev.kind # "exc") /\ Terminates

\* ---- C15 ---------------------------------------------------------------
\* the thread is inside is_control_token_active (its request included)
InActiveCheck(t) ==
  \/ Top(t) \in {"is_control_token_active", "ica_1"}
  \/ Top(t) = "call" /\ loc[t].ep = "control-token:GET"

\* C15: no step of is_control_token_active changes the connector's state
\* (token value and id, header, cookie, connected, version,
\* control_token_req, session) and its request changes nothing at the
\* service; its result is fixed by the answer and the unchanged stored id,
\* so calls answered alike return alike.
Thm_C15_ActiveCheckPure ==
  [][ InActiveCheck(MainThread) =>
        /\ connVars' = connVars
        /\ ev'.kind = "req" => svcVars' = svcVars
        /\ (ev'.kind = "ret" /\ ev'.name = "is_control_token_active") =>
              ev'.val = (/\ Obs.res
                         /\ Obs.resp.activeToken # None
                         /\ Obs.resp.activeToken = control_token_id') ]_vars

\* the call is repeated in the force poll with the token stored and attached:
\* the first answer was no, the second is yes
Wit_C15_RepeatedCheck ==
  /\ Returned("is_control_token_active") /\ ev.val
  /\ Obs.icaCount = 2
  /\ connected
  /\ control_token = TokenOf(control_token_id) /\ header = control_token

\* ---- C16 ---------------------------------------------------------------
\* the thread is inside logout (its request included)
InLogout(t) ==
  \/ Top(t) \in {"logout", "logout_1"}
  \/ Top(t) = "call" /\ loc[t].ep = "logout"

\* C16: logout returns whether its request was answered 200; it sets
\* connected to False exactly when it was, leaves connected as it is
\* otherwise, and in neither case touches the authorization cookie of the
\* session.
Thm_C16_LogoutKeepsCookie ==
  [][ InLogout(MainThread) =>
        /\ cookie' = cookie
        /\ IF ev'.kind = "ret" /\ ev'.name = "logout"
           THEN /\ ev'.val = Obs.res
                /\ connected' = IF ev'.val THEN FALSE ELSE connected
           ELSE connected' = connected ]_vars

\* logged in, then logged out: not connected, the cookie of the login still
\* in the session
Wit_C16_LoggedOutWithCookie ==
  /\ Returned("logout") /\ ev.val
  /\ ~connected
  /\ cookie = "credential"

\* ---- C17 ---------------------------------------------------------------
\* the thread is inside acquire_control_token (its calls included)
InAcquire(t) ==
  \E lbl \in {"acquire_control_token", "acq_safety", "acq_store", "acq_store_id",
              "acq_store_hdr", "acq_poll", "acq_poll_1", "acq_std_ret"} : OnStack(t, lbl)

\* C17: as long as acquire_control_token has received no token response, no
\* step of it changes the stored token value, the stored id or the
\* X-Control-Token header; the forced token request is attempted only after
\* the safety query was answered; and a call that ends without a token
\* response returns false and has made no activity check.
Thm_C17_FailedAcquireKeepsToken ==
  [][ InAcquire(MainThread) =>
        /\ ~Obs.reqOK' => /\ control_token' = control_token
                          /\ control_token_id' = control_token_id
                          /\ header' = header
        /\ (ev'.kind \in {"req", "raise"} /\ ev'.name = "request?force") =>
              (Obs.force /\ Obs.timeout # None)
        /\ (ev'.kind = "ret" /\ ev'.name = "acquire_control_token" /\ ~Obs.reqOK') =>
              (~ev'.val /\ Obs.icaCount' = 0) ]_vars

\* a token is held and attached; a further forced acquire got its safety
\* answer but no token response: it returns false, the old token still there
Wit_C17_SecondRequestFails ==
  /\ Returned("acquire_control_token") /\ ~ev.val
  /\ Obs.force /\ Obs.timeout # None /\ ~Obs.reqOK
  /\ control_token = TokenOf(LastId) /\ control_token_id = LastId
  /\ header = control_token

\* ---- C18 ---------------------------------------------------------------
\* C18: whenever two interleaved acquire_control_token calls have both
\* ended, the stored token value, the stored id and the X-Control-Token
\* header come from one token response.
CE_C18_OneResponse ==
  ((\A t \in Threads : Idle(t)) /\ control_token # None) =>
     /\ control_token = TokenOf(control_token_id)
     /\ header = control_token

\* ---- C19 ---------------------------------------------------------------
\* C19: between operations, whenever a control token value is stored the
\* X-Control-Token header of the session is present and equal to it.
CE_C19_HeaderIsStoredToken ==
  (Idle(MainThread) /\ control_token # None) => header = control_token

\* ---- C20 ---------------------------------------------------------------
\* C20: main sends no token request, open-brakes, gripper-homing or
\* enable-FCI request, and registers no service, unless a connect() call has
\* returned True before.
CE_C20_NothingBeforeConnect ==
  /\ (/\ node.phase = "main"
      /\ ev.kind = "req"
      /\ ev.name \in {"request", "request?force", "open-brakes", "homing", "fci:POST"})
        => node.connectOK
  /\ (ev.kind = "main" /\ ev.name = "services") => node.connectOK

=============================================================================
